---- MODULE Spec2Model ----
(***************************************************************************)
(* Model of apps/web/app/api/callback/stripe/route.ts: the POST handler   *)
(* that listens to Stripe webhooks and reconciles the project record       *)
(* (prisma.project), the root-domain redirect keys in Redis, and the       *)
(* e-mails and log entries it sends.                                       *)
(*                                                                         *)
(* One request is a process with a program counter; an action is the code  *)
(* that runs between two awaits of the handler.  The record store, Redis,  *)
(* Stripe and the e-mail service are collaborators whose calls may fail.   *)
(***************************************************************************)
EXTENDS Integers, Sequences, FiniteSets, TLC

(* ------------------------------ bounds -------------------------------- *)

\* days of the month the clock ranges over (new Date().getDate())
MaxDay == 2

Days == 1 .. MaxDay

\* request slots: the requests that may be in the handler at the same time
Requests == 1 .. 2

(* --------------------------- data universe ---------------------------- *)

Null == "null"

AccountIds == {"acct_1", "acct_2"}

Customers == {"cus_42", "cus_7"}

Users == {"u1", "u2", "u3"}

Domains == {"dub.sh", "acme.com"}

PriceIds == {"price_pro_monthly", "price_enterprise", "price_unknown"}

\* users and domains the accounts were created with
InitUsers == [a \in AccountIds |-> IF a = "acct_1" THEN {"u1", "u2"} ELSE {"u3"}]

InitDomains == [a \in AccountIds |-> IF a = "acct_1" THEN Domains ELSE {}]

(* --------------------------- plan catalog ----------------------------- *)

\* PLANS of @dub/utils: an ordered catalog of plan descriptors
PLANS ==
  << [name |-> "free", priceIds |-> {},
      limits |-> [clicks |-> 1000, links |-> 25, domains |-> 3, tags |-> 5, users |-> 1]],
     [name |-> "pro", priceIds |-> {"price_pro_monthly"},
      limits |-> [clicks |-> 50000, links |-> 1000, domains |-> 10, tags |-> 25, users |-> 5]],
     [name |-> "Enterprise", priceIds |-> {"price_enterprise"},
      limits |-> [clicks |-> 1000000, links |-> 10000, domains |-> 100, tags |-> 100, users |-> 20]] >>

\* getPlanFromPriceId: index of the first descriptor that lists the price,
\* 0 when there is none (the code's null)
getPlanFromPriceId(priceId) ==
  LET hits == {i \in DOMAIN PLANS : priceId \in PLANS[i].priceIds}
  IN  IF hits = {} THEN 0 ELSE CHOOSE i \in hits : \A j \in hits : i <= j

\* PLANS.find((plan) => plan.name === "free")
FREE_PLAN == PLANS[CHOOSE i \in DOMAIN PLANS : PLANS[i].name = "free"]

\* String.prototype.toLowerCase on the names of the catalog
toLowerCase(s) ==
  CASE s = "Enterprise" -> "enterprise"
    [] s = "Pro" -> "pro"
    [] s = "Free" -> "free"
    [] OTHER -> s

(* ------------------------------ events -------------------------------- *)

\* a set of relevant events that also lists invoice.paid
relevantEvents_WithInvoice ==
  {"checkout.session.completed", "customer.subscription.updated",
   "customer.subscription.deleted", "invoice.paid"}

relevantEvents ==
  {"checkout.session.completed", "customer.subscription.updated",
   "customer.subscription.deleted"}

Event(t, ref, cus, price) ==
  [type |-> t, client_reference_id |-> ref, customer |-> cus, priceId |-> price]

NoEvent == Event("none", Null, Null, Null)

\* the events Stripe may deliver: checkouts of either account by either
\* customer at every price, a checkout without account reference, one
\* without customer, one of an account that is not in the store;
\* subscription updates and deletions of either customer; an event of
\* another type
Events ==
  {Event("checkout.session.completed", ref, cus, p) :
     ref \in AccountIds, cus \in Customers, p \in PriceIds}
  \cup
  {Event("checkout.session.completed", Null, "cus_42", "price_pro_monthly"),
   Event("checkout.session.completed", "acct_1", Null, "price_pro_monthly"),
   Event("checkout.session.completed", "acct_gone", "cus_42", "price_pro_monthly")}
  \cup
  {Event("customer.subscription.updated", Null, cus, p) :
     cus \in Customers, p \in PriceIds}
  \cup
  {Event("customer.subscription.deleted", Null, cus, p) :
     cus \in Customers, p \in {"price_pro_monthly", "price_unknown"}}
  \cup
  {Event("invoice.paid", Null, "cus_42", "price_pro_monthly")}

\* the Stripe-Signature header: absent, not matching the body, matching
Signatures == {"none", "bad", "good"}

(* ----------------------------- responses ------------------------------ *)

Response(status, body) == [status |-> status, body |-> body]

\* the handler has not returned yet
Pending == Response(-1, "pending")

\* a bare `return;`: the handler resolves to undefined
Undefined == Response(0, "undefined")

Received == Response(200, "received")

WebhookError == Response(400, "Webhook Error")

HandlerFailed == Response(400, "Webhook handler failed")

Unhandled == Response(400, "Unhandled event type")

(* ------------------------------- state -------------------------------- *)

VARIABLES
  project,        \* prisma.project: account id -> record
  redis,          \* keys of the root-domain redirects
  today,          \* new Date().getDate()
  webhookSecret,  \* process.env.STRIPE_WEBHOOK_SECRET is set
  maxInFlight,    \* requests the server runs at the same time
  pc,             \* request -> position in the handler
  req,            \* request -> its inputs (signature header, event)
  resp,           \* request -> the value the handler returned
  local,          \* request -> plan, date, users, domains, caught error,
                  \* number of sendEmail jobs scheduled per user
  mutations,      \* request -> number of record-store writes it committed
  logs,           \* request -> the log() calls it made
  upgradeEmails,  \* request -> user -> state of the scheduled sendEmail job
  batch,          \* request -> state of the members of the cancellation batch
  redelivered,    \* request -> it delivers again the event of the request before it,
                  \* whose write was committed
  provider        \* the payment provider: the events it emitted for one account,
                  \* in its order; those it saw answered with 200; whether
                  \* every answer it saw was 200

vars ==
  << project, redis, today, webhookSecret, maxInFlight, pc, req, resp, local,
     mutations, logs, upgradeEmails, batch, redelivered, provider >>

RootKey(domain) == << "root", domain >>

NoLocal ==
  [plan |-> 0, day |-> 0, users |-> {}, domains |-> {}, error |-> "none",
   jobs |-> [u \in Users |-> 0]]

NoBatch == [update |-> "none", pipeline |-> "none", log |-> "none", email |-> "none"]

NoEmails == [u \in Users |-> "none"]

NewProject(a) ==
  [stripeId |-> Null, plan |-> FREE_PLAN.name, billingCycleStart |-> 1,
   usageLimit |-> FREE_PLAN.limits.clicks, linksLimit |-> FREE_PLAN.limits.links,
   domainsLimit |-> FREE_PLAN.limits.domains, tagsLimit |-> FREE_PLAN.limits.tags,
   usersLimit |-> FREE_PLAN.limits.users,
   users |-> InitUsers[a], domains |-> InitDomains[a]]

\* no provider-side history is followed: any event may arrive
NoProvider == [script |-> << >>, delivered |-> {}, acked |-> TRUE]

\* provider-side histories of account acct_1 with customer cus_42: a
\* purchase of the pro plan, then possibly a change to enterprise, then
\* possibly the cancellation
Scripts ==
  LET P == Event("checkout.session.completed", "acct_1", "cus_42", "price_pro_monthly")
      U == Event("customer.subscription.updated", Null, "cus_42", "price_enterprise")
      D == Event("customer.subscription.deleted", Null, "cus_42", "price_enterprise")
  IN  {<< P >>, << P, U >>, << P, D >>, << P, U, D >>}

\* the events that may arrive: those of the provider's history when one is
\* followed (in any order, any number of times), any event otherwise
Deliverable ==
  IF provider.script = << >> THEN Events
  ELSE {provider.script[i] : i \in DOMAIN provider.script}

\* the provider takes note of the answer to the request that leaves slot r
\* (it keeps this record when it delivers one event at a time)
Noted(r) ==
  IF provider.script = << >> \/ pc[r] # "done" \/ maxInFlight > 1 THEN provider
  ELSE [provider EXCEPT
          !.delivered = @ \cup {i \in DOMAIN provider.script :
                                  provider.script[i] = req[r].event /\ resp[r] = Received},
          !.acked = @ /\ resp[r] = Received]

InitCommon ==
  /\ project = [a \in AccountIds |-> NewProject(a)]
  /\ redis = {RootKey(d) : d \in Domains}
  /\ today \in Days
  /\ webhookSecret \in BOOLEAN
  /\ pc = [r \in Requests |-> "idle"]
  /\ req = [r \in Requests |-> [sig |-> "none", event |-> NoEvent]]
  /\ resp = [r \in Requests |-> Pending]
  /\ local = [r \in Requests |-> NoLocal]
  /\ mutations = [r \in Requests |-> 0]
  /\ logs = [r \in Requests |-> << >>]
  /\ upgradeEmails = [r \in Requests |-> NoEmails]
  /\ batch = [r \in Requests |-> NoBatch]
  /\ redelivered = [r \in Requests |-> FALSE]

\* one request at a time
Init == InitCommon /\ maxInFlight = 1 /\ provider = NoProvider

\* the events of account acct_2 with customer cus_7 that race each other
RacingEvents ==
  << Event("checkout.session.completed", "acct_2", "cus_7", "price_pro_monthly"),
     Event("customer.subscription.updated", Null, "cus_7", "price_enterprise"),
     Event("customer.subscription.deleted", Null, "cus_7", "price_enterprise") >>

\* two requests at a time, deliveries of the racing events in any order
\* and any number of times
InitConcurrent ==
  /\ InitCommon /\ maxInFlight = 2
  /\ provider = [NoProvider EXCEPT !.script = RacingEvents]

\* one request at a time, the deliveries of one provider-side history
InitProvider ==
  /\ InitCommon /\ maxInFlight = 1
  /\ \E script \in Scripts : provider = [NoProvider EXCEPT !.script = script]


(* ------------------------------ helpers ------------------------------- *)

InFlight == {r \in Requests : pc[r] \notin {"idle", "done"}}

LogEntry(message, mention) == [message |-> message, mention |-> mention]

\* if (!sig || !webhookSecret) return;
missingSigOrSecret(sig, secret) == sig = "none" \/ ~secret

\* a verification that only looks for the presence of a signature
constructEvent_AnySignature(sig) == sig # "none"

\* stripe.webhooks.constructEvent succeeds (it throws on a signature that
\* does not match the body or on a malformed payload)
constructEvent(sig) == sig = "good"

\* an update that adds to the usage limit instead of assigning it
Apply_Accumulate(rec, data) ==
  [f \in DOMAIN rec |->
     IF f \notin DOMAIN data THEN rec[f]
     ELSE IF f = "usageLimit" THEN rec[f] + data[f]
     ELSE data[f]]

\* prisma update: assign the fields of data, keep every other field
Apply(rec, data) == [f \in DOMAIN rec |-> IF f \in DOMAIN data THEN data[f] ELSE rec[f]]

\* data of the update of the checkout.session.completed branch
checkoutData(plan, stripeId, day) ==
  [stripeId |-> stripeId, billingCycleStart |-> day,
   usageLimit |-> plan.limits.clicks, linksLimit |-> plan.limits.links,
   domainsLimit |-> plan.limits.domains, tagsLimit |-> plan.limits.tags,
   usersLimit |-> plan.limits.users, plan |-> toLowerCase(plan.name)]

\* an update copied from the checkout branch that also sets the anchor
updatedData_ResetsAnchor(plan) ==
  [billingCycleStart |-> 1,
   usageLimit |-> plan.limits.clicks, linksLimit |-> plan.limits.links,
   domainsLimit |-> plan.limits.domains, tagsLimit |-> plan.limits.tags,
   usersLimit |-> plan.limits.users, plan |-> toLowerCase(plan.name)]

\* data of the update of the customer.subscription.updated branch
updatedData(plan) ==
  [usageLimit |-> plan.limits.clicks, linksLimit |-> plan.limits.links,
   domainsLimit |-> plan.limits.domains, tagsLimit |-> plan.limits.tags,
   usersLimit |-> plan.limits.users, plan |-> toLowerCase(plan.name)]

\* a reset that names the free plan and leaves the limits
deletedData_NameOnly == [plan |-> "free"]

\* data of the update of the customer.subscription.deleted branch
deletedData ==
  [plan |-> "free",
   usageLimit |-> FREE_PLAN.limits.clicks, linksLimit |-> FREE_PLAN.limits.links,
   domainsLimit |-> FREE_PLAN.limits.domains, tagsLimit |-> FREE_PLAN.limits.tags,
   usersLimit |-> FREE_PLAN.limits.users]

\* a lookup that falls back to some project when none matches
findUnique_OrFirst(stripeId) ==
  IF \E a \in AccountIds : project[a].stripeId = stripeId
    THEN {a \in AccountIds : project[a].stripeId = stripeId}
    ELSE {"acct_1"}

\* prisma.project.findUnique({ where: { stripeId } }): the matching ids
findUnique(stripeId) == {a \in AccountIds : project[a].stripeId = stripeId}

\* the unique constraint on stripeId forbids the write of stripeId to id
uniqueViolation(id, stripeId) ==
  \E a \in AccountIds \ {id} : project[a].stripeId = stripeId

\* a pipeline that got the delete of one domain only
pipelineKeys_OneDomain(domains) ==
  IF domains = {} THEN {} ELSE {RootKey(CHOOSE d \in domains : TRUE)}

\* projectDomains.forEach((domain) => pipeline.del(`root:${domain}`)): the
\* keys the pipeline deletes
pipelineKeys(domains) == {RootKey(d) : d \in domains}

\* the handler returns response
Return(r, response) ==
  /\ pc' = [pc EXCEPT ![r] = "done"]
  /\ resp' = [resp EXCEPT ![r] = response]

\* the catch block: log the error with mention, answer 400
Caught(r, error) ==
  /\ local' = [local EXCEPT ![r] = [@ EXCEPT !.error = error]]
  /\ logs' = [logs EXCEPT ![r] = Append(@, LogEntry("Stripe webook failed", TRUE))]
  /\ Return(r, HandlerFailed)

\* the join of Promise.all: the first rejection reaches the catch block
batchResponse_FailFast(b) ==
  IF \E m \in DOMAIN b : b[m] = "rejected" THEN HandlerFailed ELSE Received

\* what the handler returns after Promise.allSettled: the batch never
\* rejects, whatever its members did
batchResponse(b) == Received

\* an invalid-price branch without its return: the handler goes on to
\* read plan.limits of null, and the TypeError reaches the catch block
invalidPrice_NoReturn(message) ==
  [resp |-> HandlerFailed,
   logs |-> << LogEntry(message, TRUE), LogEntry("Stripe webook failed", TRUE) >>]

\* if (!plan): log the invalid price with mention, then a bare return
invalidPrice(message) ==
  [resp |-> Undefined, logs |-> << LogEntry(message, TRUE) >>]

\* a fan-out that leaves out one of the users
fanOut_SkipsOne(users) ==
  [u \in Users |->
     IF u \in users /\ u # (CHOOSE v \in users : TRUE) THEN 1 ELSE 0]

\* users.map((user) => { limiter.schedule(...) }): the number of sendEmail
\* jobs scheduled for each user
fanOut(users) == [u \in Users |-> IF u \in users THEN 1 ELSE 0]

(* ------------------------------ actions ------------------------------- *)

\* the handler up to its first await after the verification: what it
\* returns at once, or the call it waits for
entry(sig, secret, ev) ==
  IF missingSigOrSecret(sig, secret)
    THEN [pc |-> "done", resp |-> Undefined, logs |-> << >>, plan |-> 0]
  ELSE IF ~constructEvent(sig)
    THEN [pc |-> "done", resp |-> WebhookError, logs |-> << >>, plan |-> 0]
  ELSE IF ev.type \notin relevantEvents
    THEN [pc |-> "done", resp |-> Unhandled, logs |-> << >>, plan |-> 0]
  ELSE IF ev.type = "checkout.session.completed"
    THEN IF ev.client_reference_id = Null \/ ev.customer = Null
           THEN [pc |-> "done", resp |-> Undefined,
                 logs |-> << LogEntry("Missing items in Stripe webhook callback", TRUE) >>,
                 plan |-> 0]
           ELSE [pc |-> "retrieve", resp |-> Pending, logs |-> << >>, plan |-> 0]
  ELSE IF ev.type = "customer.subscription.updated"
    THEN IF getPlanFromPriceId(ev.priceId) = 0
           THEN [pc |-> "done",
                 resp |-> invalidPrice("Invalid price ID in customer.subscription.updated event").resp,
                 logs |-> invalidPrice("Invalid price ID in customer.subscription.updated event").logs,
                 plan |-> 0]
           ELSE [pc |-> "su_find", resp |-> Pending, logs |-> << >>,
                 plan |-> getPlanFromPriceId(ev.priceId)]
  ELSE IF ev.type = "customer.subscription.deleted"
    THEN [pc |-> "sd_find", resp |-> Pending, logs |-> << >>, plan |-> 0]
  ELSE [pc |-> "done", resp |-> Received, logs |-> << >>, plan |-> 0]

\* the request yields a typed event
verified(sig, secret) == ~missingSigOrSecret(sig, secret) /\ constructEvent(sig)

\* a request arrives: body, signature header
POST(r) ==
  /\ pc[r] \in {"idle", "done"}
  /\ Cardinality(InFlight) < maxInFlight
  /\ \A q \in Requests \ InFlight : r <= q
  /\ \E sig \in Signatures :
     \E ev \in IF verified(sig, webhookSecret) THEN Deliverable ELSE {NoEvent} :
       LET e == entry(sig, webhookSecret, ev)
       IN  /\ req' = [req EXCEPT ![r] = [sig |-> sig, event |-> ev]]
           /\ redelivered' = [redelivered EXCEPT ![r] =
                ev # NoEvent /\ ev = req[r].event /\ mutations[r] > 0]
           /\ pc' = [pc EXCEPT ![r] = e.pc]
           /\ resp' = [resp EXCEPT ![r] = e.resp]
           /\ logs' = [logs EXCEPT ![r] = e.logs]
           /\ local' = [local EXCEPT ![r] = [NoLocal EXCEPT !.plan = e.plan]]
  /\ mutations' = [mutations EXCEPT ![r] = 0]
  /\ upgradeEmails' = [upgradeEmails EXCEPT ![r] = NoEmails]
  /\ batch' = [batch EXCEPT ![r] = NoBatch]
  /\ provider' = Noted(r)
  /\ UNCHANGED << project, redis, today, webhookSecret, maxInFlight >>

\* stripe.subscriptions.retrieve settles; the price is resolved to a plan
\* and the update of the project is issued
Retrieve(r) ==
  /\ pc[r] = "retrieve"
  /\ \E ok \in BOOLEAN :
       LET plan == getPlanFromPriceId(req[r].event.priceId)
       IN  IF ~ok
             THEN Caught(r, "stripe")
           ELSE IF plan = 0
             THEN /\ logs' = [logs EXCEPT ![r] =
                       @ \o invalidPrice("Invalid price ID in checkout.session.completed event").logs]
                  /\ Return(r, invalidPrice("Invalid price ID in checkout.session.completed event").resp)
                  /\ UNCHANGED local
           ELSE /\ local' = [local EXCEPT ![r] = [@ EXCEPT !.plan = plan, !.day = today]]
                /\ pc' = [pc EXCEPT ![r] = "co_update"]
                /\ UNCHANGED << resp, logs >>
  /\ UNCHANGED << project, redis, today, webhookSecret, maxInFlight, req,
                  mutations, upgradeEmails, batch, redelivered, provider >>

\* prisma.project.update({ where: { id } }) of the checkout branch settles
CheckoutUpdate(r) ==
  /\ pc[r] = "co_update"
  /\ LET ev == req[r].event
         id == ev.client_reference_id
     IN  \E ok \in BOOLEAN :
           IF ~ok \/ id \notin AccountIds \/ uniqueViolation(id, ev.customer)
             THEN Caught(r, "store") /\ UNCHANGED << project, mutations >>
             ELSE /\ project' = [project EXCEPT ![id] =
                        Apply(@, checkoutData(PLANS[local[r].plan], ev.customer, local[r].day))]
                  /\ mutations' = [mutations EXCEPT ![r] = @ + 1]
                  /\ local' = [local EXCEPT ![r] = [@ EXCEPT !.users = project[id].users]]
                  /\ pc' = [pc EXCEPT ![r] = "co_fanout"]
                  /\ UNCHANGED << resp, logs >>
  /\ UNCHANGED << redis, today, webhookSecret, maxInFlight, req, upgradeEmails, batch,
                  redelivered, provider >>

\* users.map schedules one sendEmail per user on the limiter; the callback
\* returns nothing, so Promise.allSettled has nothing to wait for and the
\* handler returns
CheckoutFanOut(r) ==
  /\ pc[r] = "co_fanout"
  /\ local' = [local EXCEPT ![r] = [@ EXCEPT !.jobs = fanOut(local[r].users)]]
  /\ upgradeEmails' = [upgradeEmails EXCEPT ![r] =
       [u \in Users |-> IF fanOut(local[r].users)[u] > 0 THEN "queued" ELSE "none"]]
  /\ Return(r, Received)
  /\ UNCHANGED << project, redis, today, webhookSecret, maxInFlight, req,
                  mutations, logs, batch, redelivered, provider >>

\* a scheduled sendEmail job settles
EmailSettle(r, u) ==
  /\ upgradeEmails[r][u] = "queued"
  /\ \E outcome \in {"sent", "failed"} :
       upgradeEmails' = [upgradeEmails EXCEPT ![r][u] = outcome]
  /\ UNCHANGED << project, redis, today, webhookSecret, maxInFlight, pc, req, resp,
                  local, mutations, logs, batch, redelivered, provider >>


\* prisma.project.findUnique of the customer.subscription.updated branch
\* settles; when a project was found its update is issued
SubscriptionUpdatedFind(r) ==
  /\ pc[r] = "su_find"
  /\ \E ok \in BOOLEAN :
       IF ~ok
         THEN Caught(r, "store")
       ELSE IF findUnique(req[r].event.customer) = {}
         THEN /\ logs' = [logs EXCEPT ![r] =
                   Append(@, LogEntry("Project not found in customer.subscription.updated callback", FALSE))]
              /\ Return(r, Received)
              /\ UNCHANGED local
       ELSE /\ pc' = [pc EXCEPT ![r] = "su_update"]
            /\ UNCHANGED << resp, logs, local >>
  /\ UNCHANGED << project, redis, today, webhookSecret, maxInFlight, req,
                  mutations, upgradeEmails, batch, redelivered, provider >>

\* prisma.project.update({ where: { stripeId } }) of the
\* customer.subscription.updated branch settles
SubscriptionUpdatedUpdate(r) ==
  /\ pc[r] = "su_update"
  /\ LET ev == req[r].event
         found == findUnique(ev.customer)
     IN  \E ok \in BOOLEAN :
           IF ~ok \/ found = {}
             THEN Caught(r, "store") /\ UNCHANGED << project, mutations >>
             ELSE /\ project' = [a \in AccountIds |->
                        IF a \in found THEN Apply(project[a], updatedData(PLANS[local[r].plan]))
                                       ELSE project[a]]
                  /\ mutations' = [mutations EXCEPT ![r] = @ + 1]
                  /\ Return(r, Received)
                  /\ UNCHANGED << logs, local >>
  /\ UNCHANGED << redis, today, webhookSecret, maxInFlight, req,
                  upgradeEmails, batch, redelivered, provider >>

\* prisma.project.findUnique of the customer.subscription.deleted branch
\* settles; when a project was found the pipeline is built and the batch of
\* Promise.allSettled is started: update, pipeline.exec, log, resend send
SubscriptionDeletedFind(r) ==
  /\ pc[r] = "sd_find"
  /\ LET found == findUnique(req[r].event.customer)
     IN  \E ok \in BOOLEAN :
           IF ~ok
             THEN Caught(r, "store") /\ UNCHANGED batch
           ELSE IF found = {}
             THEN /\ logs' = [logs EXCEPT ![r] =
                       Append(@, LogEntry("Project not found in customer.subscription.deleted callback", FALSE))]
                  /\ Return(r, Received)
                  /\ UNCHANGED << local, batch >>
           ELSE LET p == project[CHOOSE a \in found : TRUE]
                IN  /\ local' = [local EXCEPT ![r] =
                          [@ EXCEPT !.users = p.users, !.domains = p.domains]]
                    /\ batch' = [batch EXCEPT ![r] =
                          [update |-> "pending", pipeline |-> "pending",
                           log |-> "pending", email |-> "pending"]]
                    /\ logs' = [logs EXCEPT ![r] =
                          Append(@, LogEntry("Project deleted their subscription", TRUE))]
                    /\ pc' = [pc EXCEPT ![r] = "sd_batch"]
                    /\ UNCHANGED resp
  /\ UNCHANGED << project, redis, today, webhookSecret, maxInFlight, req,
                  mutations, upgradeEmails, redelivered, provider >>

\* member of the batch: prisma.project.update({ where: { stripeId } }) settles
BatchUpdate(r) ==
  /\ pc[r] = "sd_batch"
  /\ batch[r].update = "pending"
  /\ LET ev == req[r].event
         found == findUnique(ev.customer)
     IN  \E ok \in BOOLEAN :
           IF ~ok \/ found = {}
             THEN /\ batch' = [batch EXCEPT ![r].update = "rejected"]
                  /\ UNCHANGED << project, mutations >>
             ELSE /\ project' = [a \in AccountIds |->
                        IF a \in found THEN Apply(project[a], deletedData) ELSE project[a]]
                  /\ mutations' = [mutations EXCEPT ![r] = @ + 1]
                  /\ batch' = [batch EXCEPT ![r].update = "fulfilled"]
  /\ UNCHANGED << redis, today, webhookSecret, maxInFlight, pc, req, resp, local,
                  logs, upgradeEmails, redelivered, provider >>

\* member of the batch: pipeline.exec() settles; it deletes root:<domain>
\* for every domain read from the project
BatchPipeline(r) ==
  /\ pc[r] = "sd_batch"
  /\ batch[r].pipeline = "pending"
  /\ \E ok \in BOOLEAN :
       IF ok
         THEN /\ redis' = redis \ pipelineKeys(local[r].domains)
              /\ batch' = [batch EXCEPT ![r].pipeline = "fulfilled"]
         ELSE /\ batch' = [batch EXCEPT ![r].pipeline = "rejected"]
              /\ UNCHANGED redis
  /\ UNCHANGED << project, today, webhookSecret, maxInFlight, pc, req, resp, local,
                  mutations, logs, upgradeEmails, redelivered, provider >>

\* member of the batch: log() settles
BatchLog(r) ==
  /\ pc[r] = "sd_batch"
  /\ batch[r].log = "pending"
  /\ \E outcome \in {"fulfilled", "rejected"} :
       batch' = [batch EXCEPT ![r].log = outcome]
  /\ UNCHANGED << project, redis, today, webhookSecret, maxInFlight, pc, req, resp,
                  local, mutations, logs, upgradeEmails, redelivered, provider >>

\* member of the batch: resend.emails.send to projectUsers settles
BatchEmail(r) ==
  /\ pc[r] = "sd_batch"
  /\ batch[r].email = "pending"
  /\ \E outcome \in {"fulfilled", "rejected"} :
       batch' = [batch EXCEPT ![r].email = outcome]
  /\ UNCHANGED << project, redis, today, webhookSecret, maxInFlight, pc, req, resp,
                  local, mutations, logs, upgradeEmails, redelivered, provider >>

\* every member of the batch has settled: Promise.allSettled resolves and
\* the handler returns
SubscriptionDeletedReturn(r) ==
  /\ pc[r] = "sd_batch"
  /\ \A m \in DOMAIN batch[r] : batch[r][m] \in {"fulfilled", "rejected"}
  /\ Return(r, batchResponse(batch[r]))
  /\ UNCHANGED << project, redis, today, webhookSecret, maxInFlight, req, local,
                  mutations, logs, upgradeEmails, batch, redelivered, provider >>

\* the date changes
Tick ==
  /\ today' = (today % MaxDay) + 1
  /\ UNCHANGED << project, redis, webhookSecret, maxInFlight, pc, req, resp, local,
                  mutations, logs, upgradeEmails, batch, redelivered, provider >>

Next ==
  \/ \E r \in Requests : POST(r)
  \/ \E r \in Requests : Retrieve(r)
  \/ \E r \in Requests : CheckoutUpdate(r)
  \/ \E r \in Requests : CheckoutFanOut(r)
  \/ \E r \in Requests, u \in Users : EmailSettle(r, u)
  \/ \E r \in Requests : SubscriptionUpdatedFind(r)
  \/ \E r \in Requests : SubscriptionUpdatedUpdate(r)
  \/ \E r \in Requests : SubscriptionDeletedFind(r)
  \/ \E r \in Requests : BatchUpdate(r)
  \/ \E r \in Requests : BatchPipeline(r)
  \/ \E r \in Requests : BatchLog(r)
  \/ \E r \in Requests : BatchEmail(r)
  \/ \E r \in Requests : SubscriptionDeletedReturn(r)
  \/ Tick

Spec == Init /\ [][Next]_vars

SpecProvider == InitProvider /\ [][Next]_vars

SpecConcurrent == InitConcurrent /\ [][Next]_vars


(* ====================================================================== *)
(* Properties                                                             *)
(* ====================================================================== *)

Done(r) == pc[r] = "done"

\* the request did nothing but answer: no log() call, no e-mail scheduled,
\* no batch (cache delete, audit log, survey e-mail) started
NoSideEffects(r) ==
  logs[r] = << >> /\ upgradeEmails[r] = NoEmails /\ batch[r] = NoBatch

\* the signature header is missing, the secret is not configured, or the
\* signature does not verify
VerificationFails(r) == req[r].sig # "good" \/ ~webhookSecret

\* the price is listed by no descriptor of the catalog
TariffUnresolvable(p) == \A i \in DOMAIN PLANS : p \notin PLANS[i].priceIds

\* the descriptor that lists the price
TariffPlan(p) == CHOOSE i \in DOMAIN PLANS : p \in PLANS[i].priceIds

\* the lower-cased names of the catalog, in its order
PlanNames == << "free", "pro", "enterprise" >>

\* the record carries the name and the five limits of descriptor i
HasPlan(rec, i) ==
  /\ rec.plan = PlanNames[i]
  /\ rec.usageLimit = PLANS[i].limits.clicks
  /\ rec.linksLimit = PLANS[i].limits.links
  /\ rec.domainsLimit = PLANS[i].limits.domains
  /\ rec.tagsLimit = PLANS[i].limits.tags
  /\ rec.usersLimit = PLANS[i].limits.users

\* exactly one log entry, with mention
OneMentionLog(r) == Len(logs[r]) = 1 /\ logs[r][1].mention

(* ------------------------------- C1 ----------------------------------- *)
\* C1: a request whose signature header is missing, whose secret is not
\* configured or whose signature does not verify ends with zero
\* record-store writes and zero side effects.
C1_VerificationFailureHasNoEffect ==
  \A r \in Requests :
    Done(r) /\ VerificationFails(r) => mutations[r] = 0 /\ NoSideEffects(r)

\* a request with a signature that does not match was rejected while a
\* paying account was in the store
C1_Witness ==
  \E r \in Requests :
    /\ Done(r) /\ req[r].sig = "bad" /\ webhookSecret
    /\ resp[r] = WebhookError
    /\ \E a \in AccountIds : project[a].stripeId # Null

(* ------------------------------- C2 ----------------------------------- *)
\* C2: every verification failure (header missing, secret missing,
\* signature mismatch, malformed payload) is answered with status 400 and
\* the verification-failure detail.
C2_VerificationFailureIs400 ==
  \A r \in Requests :
    Done(r) /\ VerificationFails(r) => resp[r] = WebhookError

(* ------------------------------- C3 ----------------------------------- *)
\* C3: once the handler has returned from a customer.subscription.deleted
\* event that matched an account, the account is on the free plan with the
\* free descriptor's limits.
C3_CancelledAccountIsFree ==
  \A r \in Requests :
    Done(r) /\ req[r].event.type = "customer.subscription.deleted"
            /\ batch[r] # NoBatch
      => \A a \in findUnique(req[r].event.customer) : HasPlan(project[a], 1)

(* ------------------------------- C4 ----------------------------------- *)
\* the update of the checkout branch of request r is committed in this step
CheckoutCommitted(r) == pc[r] = "co_update" /\ pc'[r] = "co_fanout"

\* C4 as claimed: the second delivery of a checkout.session.completed event
\* leaves every field of every account as the first delivery left it.
C4_SecondDeliveryChangesNothing ==
  [][\A r \in Requests :
       CheckoutCommitted(r) /\ redelivered[r] => project' = project]_vars

\* C4 as amended: the second delivery leaves every field as the first left
\* it, except the billing-cycle anchor, which becomes the day of the month
\* of the second delivery.
C4_SecondDeliveryChangesOnlyAnchor ==
  [][\A r \in Requests :
       CheckoutCommitted(r) /\ redelivered[r] =>
         project' = [project EXCEPT
           ![req[r].event.client_reference_id].billingCycleStart = local[r].day]]_vars

\* the second delivery of a checkout event has been committed
C4_Witness ==
  \E r \in Requests :
    /\ redelivered[r] /\ pc[r] = "co_fanout" /\ mutations[r] = 1
    /\ req[r].event.type = "checkout.session.completed"

(* ------------------------------- C5 ----------------------------------- *)
\* C5: a customer.subscription.updated event whose customer matches no
\* account is answered with the 200 acknowledgement and writes nothing,
\* whatever tariff it carries.
C5_StaleUpdateIsAcknowledged ==
  \A r \in Requests :
    Done(r) /\ req[r].event.type = "customer.subscription.updated"
            /\ findUnique(req[r].event.customer) = {}
      => resp[r] = Received /\ mutations[r] = 0

(* ------------------------------- C6 ----------------------------------- *)
\* a notification of request r failed
NotificationFailed(r) ==
  \/ \E u \in Users : upgradeEmails[r][u] = "failed"
  \/ batch[r].email = "rejected"

\* the account of request r carries the plan the request wrote
UpdatedPlanKept(r) ==
  LET ev == req[r].event
  IN  IF ev.type = "checkout.session.completed"
        THEN HasPlan(project[ev.client_reference_id], TariffPlan(ev.priceId))
        ELSE \A a \in findUnique(ev.customer) : HasPlan(project[a], 1)

\* C6: a purchase or cancellation whose record-store update was committed
\* still answers 200 and keeps the written plan and limits when a
\* notification fails.
C6_NotificationFailureIsTolerated ==
  \A r \in Requests :
    Done(r) /\ mutations[r] > 0 /\ NotificationFailed(r)
            /\ req[r].event.type \in {"checkout.session.completed",
                                      "customer.subscription.deleted"}
      => resp[r] = Received /\ UpdatedPlanKept(r)

\* a cancellation returned after its survey e-mail was rejected while the
\* update, the cache delete and the log were fulfilled
C6_Witness ==
  \E r \in Requests :
    /\ Done(r)
    /\ batch[r] = [update |-> "fulfilled", pipeline |-> "fulfilled",
                   log |-> "fulfilled", email |-> "rejected"]
    /\ mutations[r] = 1

(* ------------------------------- C7 ----------------------------------- *)
\* a read or an update of the record store failed in request r
StoreFailed(r) == local[r].error = "store" \/ batch[r].update = "rejected"

\* C7: in each transition a failed record-store operation is logged with
\* mention and answered with status 400.
C7_StoreFailureIsLoggedAndRejected ==
  \A r \in Requests :
    Done(r) /\ StoreFailed(r)
      => /\ resp[r] = HandlerFailed
         /\ \E i \in DOMAIN logs[r] :
              logs[r][i] = LogEntry("Stripe webook failed", TRUE)

(* ------------------------------- C8 ----------------------------------- *)
\* the verified event of request r is of none of the three handled types
Unclassified(r) ==
  req[r].event.type \notin
    {"none", "checkout.session.completed", "customer.subscription.updated",
     "customer.subscription.deleted"}

\* C8 as claimed: an event of another type is acknowledged with 200, with
\* no write and no side effect.
C8_UnclassifiedIsAcknowledged ==
  \A r \in Requests :
    Done(r) /\ Unclassified(r)
      => resp[r] = Received /\ mutations[r] = 0 /\ NoSideEffects(r)

\* C8 as amended: an event of another type is answered with status 400
\* "Unhandled event type", with no write and no side effect.
C8_UnclassifiedIsRejectedWithoutEffect ==
  \A r \in Requests :
    Done(r) /\ Unclassified(r)
      => resp[r] = Unhandled /\ mutations[r] = 0 /\ NoSideEffects(r)

\* a verified invoice.paid event was answered
C8_Witness ==
  \E r \in Requests :
    Done(r) /\ req[r].sig = "good" /\ req[r].event.type = "invoice.paid"

(* ------------------------------- C9 ----------------------------------- *)
\* C9: every invocation ends with a response of status 200 or 400.
C9_EveryPathReturnsAResponse ==
  \A r \in Requests : Done(r) => resp[r].status \in {200, 400}

TariffLookedUp(r) ==
  LET ev == req[r].event
  IN  \/ ev.type = "customer.subscription.updated"
      \/ /\ ev.type = "checkout.session.completed"
         /\ ev.client_reference_id # Null /\ ev.customer # Null
         /\ local[r].error = "none"

C11_PurchaseWritesPlanAndSchedulesEmails ==
  \A r \in Requests :
    Done(r) /\ req[r].event.type = "checkout.session.completed"
            /\ resp[r] = Received
      => LET ev == req[r].event
         IN  /\ ev.client_reference_id \in AccountIds
             /\ ~TariffUnresolvable(ev.priceId)
             /\ HasPlan(project[ev.client_reference_id], TariffPlan(ev.priceId))
             /\ project[ev.client_reference_id].stripeId = ev.customer
             /\ \A u \in Users :
                  local[r].jobs[u] =
                    IF u \in project[ev.client_reference_id].users THEN 1 ELSE 0

\* the two-user account was moved to the enterprise plan by customer cus_42
C11_Witness ==
  \E r \in Requests :
    /\ Done(r) /\ resp[r] = Received
    /\ req[r].event = Event("checkout.session.completed", "acct_1", "cus_42",
                            "price_enterprise")
    /\ project["acct_1"].plan = "enterprise"
    /\ local[r].jobs["u1"] = 1 /\ local[r].jobs["u2"] = 1


(* ------------------------------- C12 ---------------------------------- *)
\* the plan the provider's event implies: the free tier for a
\* cancellation, the descriptor of its tariff otherwise
ImpliedPlan(ev) ==
  IF ev.type = "customer.subscription.deleted" THEN 1 ELSE TariffPlan(ev.priceId)

\* every event of the provider's history was delivered at least once and
\* every delivery, the one that has just returned included, was answered
\* with 200
AllDeliveredAndAcknowledged ==
  /\ provider.script # << >>
  /\ provider.acked
  /\ InFlight = {}
  /\ \A r \in Requests : Done(r) => resp[r] = Received
  /\ \A i \in DOMAIN provider.script :
       \/ i \in provider.delivered
       \/ \E r \in Requests : Done(r) /\ req[r].event = provider.script[i]

\* C12: once every event of the provider's history was delivered at least
\* once, in any order and any number of times, and every delivery was
\* answered with 200, the account has the plan name and limits implied by
\* the provider's latest event.
C12_NoDriftFromProvider ==
  AllDeliveredAndAcknowledged
    => HasPlan(project["acct_1"], ImpliedPlan(provider.script[Len(provider.script)]))


(* ------------------------------- C13 ---------------------------------- *)
\* a side effect of the purchase or cancellation of request r was
\* dispatched: an upgrade e-mail, the cache-delete pipeline, the audit log,
\* the survey e-mail
SideEffectDispatched(r) ==
  \/ \E u \in Users : upgradeEmails[r][u] # "none"
  \/ batch[r].pipeline # "none"
  \/ batch[r].log # "none"
  \/ batch[r].email # "none"

\* C13: in a purchase or a cancellation no side effect is dispatched while
\* the account update of the same request is not yet issued or still
\* pending.
C13_UpdateCompletesBeforeSideEffects ==
  \A r \in Requests :
    req[r].event.type \in {"checkout.session.completed",
                           "customer.subscription.deleted"}
      /\ SideEffectDispatched(r)
      => mutations[r] > 0

(* ------------------------------- C14 ---------------------------------- *)
\* C14: when the handler has returned from a purchase or a cancellation,
\* every effect it launched has settled: no upgrade e-mail is still queued
\* and no member of the batch is still pending.
C14_NoEffectInFlightAtReturn ==
  \A r \in Requests :
    Done(r) => /\ \A u \in Users : upgradeEmails[r][u] # "queued"
               /\ \A m \in DOMAIN batch[r] : batch[r][m] # "pending"


(* ------------------------------- C15 ---------------------------------- *)
\* the accounts whose external billing identifier is the customer
Matching(customer) == {a \in AccountIds : project[a].stripeId = customer}

\* the update of the customer.subscription.updated branch of request r is
\* committed in this step
SubscriptionUpdateCommitted(r) ==
  pc[r] = "su_update" /\ pc'[r] = "done" /\ mutations'[r] = mutations[r] + 1

\* C15: a customer.subscription.updated event applied to its account leaves
\* the account's billing-cycle anchor, external billing identifier, domains
\* and users, and every other account, as they were.
C15_UpdateChangesOnlyPlanAndLimits ==
  [][\A r \in Requests :
       SubscriptionUpdateCommitted(r) =>
         \A a \in AccountIds :
           IF a \in Matching(req[r].event.customer)
             THEN \A f \in {"stripeId", "billingCycleStart", "users", "domains"} :
                    project'[a][f] = project[a][f]
             ELSE project'[a] = project[a]]_vars

\* an account bought on the second day of the month was moved to the
\* enterprise plan by an update
C15_Witness ==
  \E r \in Requests :
    /\ Done(r) /\ mutations[r] = 1
    /\ req[r].event.type = "customer.subscription.updated"
    /\ \E a \in Matching(req[r].event.customer) :
         project[a].billingCycleStart = 2 /\ project[a].plan = "enterprise"

(* ------------------------------- C16 ---------------------------------- *)
\* the update of the customer.subscription.deleted branch of request r is
\* committed in this step
CancellationCommitted(r) ==
  batch[r].update = "pending" /\ batch'[r].update = "fulfilled"

\* C16: the second successful application of the same
\* customer.subscription.updated or customer.subscription.deleted event
\* leaves every account as the first application left it.
C16_SecondUpdateOrCancellationChangesNothing ==
  [][\A r \in Requests :
       (SubscriptionUpdateCommitted(r) \/ CancellationCommitted(r)) /\ redelivered[r]
         => project' = project]_vars

\* an update or a cancellation was committed for the second time in a row
C16_Witness ==
  \E r \in Requests :
    /\ redelivered[r] /\ mutations[r] = 1
    /\ req[r].event.type \in {"customer.subscription.updated",
                              "customer.subscription.deleted"}

(* ------------------------------- C17 ---------------------------------- *)
\* C17: a customer.subscription.deleted event whose customer no account
\* carries, and whose lookup completed, is answered with 200; it writes
\* nothing, starts no cache delete and no e-mail, and makes one log entry.
C17_StaleCancellationOnlyLogs ==
  \A r \in Requests :
    Done(r) /\ req[r].event.type = "customer.subscription.deleted"
            /\ Matching(req[r].event.customer) = {}
            /\ local[r].error = "none"
      => /\ resp[r] = Received
         /\ mutations[r] = 0
         /\ batch[r] = NoBatch
         /\ upgradeEmails[r] = NoEmails
         /\ Len(logs[r]) = 1

\* a cancellation for customer cus_7 was answered while only cus_42 had an
\* account, whose redirect keys are in the cache
C17_Witness ==
  \E r \in Requests :
    /\ Done(r) /\ resp[r] = Received
    /\ req[r].event.type = "customer.subscription.deleted"
    /\ req[r].event.customer = "cus_7"
    /\ Matching("cus_7") = {} /\ Matching("cus_42") # {}
    /\ redis # {}

(* ------------------------------- C18 ---------------------------------- *)
\* the batch of the cancellation of request r is started in this step
BatchStarted(r) == pc[r] = "sd_find" /\ pc'[r] = "sd_batch"

\* the pipeline of the cancellation of request r is executed in this step
PipelineExecuted(r) ==
  batch[r].pipeline = "pending" /\ batch'[r].pipeline = "fulfilled"

\* C18: the batch of a cancellation addresses the survey e-mail to every
\* user of the matching account and its pipeline deletes the key
\* root:<domain> of every domain of that account, and nothing else, in one
\* execution; users and domains are those read in the same request.
C18_CancellationBatchCoversDomainsAndUsers ==
  [][\A r \in Requests :
       /\ BatchStarted(r) =>
            \A a \in Matching(req[r].event.customer) :
              /\ local'[r].users = project[a].users
              /\ local'[r].domains = project[a].domains
              /\ batch'[r].email = "pending" /\ batch'[r].pipeline = "pending"
       /\ PipelineExecuted(r) =>
            redis' = redis \ {<< "root", d >> : d \in local[r].domains}]_vars

\* the cancellation of the account with two domains and two users has
\* executed its pipeline: both redirect keys are gone
C18_Witness ==
  \E r \in Requests :
    /\ batch[r].pipeline = "fulfilled"
    /\ local[r].domains = {"dub.sh", "acme.com"}
    /\ local[r].users = {"u1", "u2"}
    /\ redis = {}


(* ------------------------------- C19 ---------------------------------- *)
\* C19: under any interleaving of concurrent requests every account's plan
\* name and five limits are those of one single descriptor of the catalog.
C19_PlanAndLimitsFromOneDescriptor ==
  \A a \in AccountIds : \E i \in DOMAIN PLANS : HasPlan(project[a], i)

\* a cancellation has committed its reset while an update of the same
\* account, issued after its lookup found the account, is still pending
C19_Witness ==
  \E r, q \in Requests :
    /\ r # q
    /\ pc[r] = "sd_batch" /\ batch[r].update = "fulfilled"
    /\ pc[q] = "su_update"
    /\ req[r].event.customer = req[q].event.customer
    /\ \E a \in Matching(req[q].event.customer) : project[a].plan = "free"

====
